---- MODULE Spec2Model ----
(***************************************************************************)
(* Model of the mmio crate: the owning volatile handle VolBox (lib.rs),    *)
(* the volatile cell VCell (vcell.rs) and the register traits (reg.rs).    *)
(*                                                                         *)
(* Memory is an array of bytes.  A value of the element type T is a tuple  *)
(* of SizeOfT bytes, so that a volatile access touches exactly SizeOfT     *)
(* consecutive addresses and the pointer arithmetic of read_at / write_at  *)
(* is visible.  An access whose pointer breaks the safety contract of      *)
(* VolBox::new (null, unaligned, outside the memory) is undefined          *)
(* behaviour: it sets ub, after which Havoc gives memory and the result    *)
(* any value and no property is stated.  The scalar operations read and    *)
(* write are exercised on handles of the element type T, the indexed ones  *)
(* on handles of [T; N]; one handle is live at a time, as new's contract   *)
(* of exclusive ownership demands.                                         *)
(***************************************************************************)
EXTENDS Integers, Sequences, FiniteSets, TLC

\* ------------------------------------------------------------------ bounds
\* Number of byte addresses of the modelled memory (address 0 is null).
MemSize == 6
\* Largest const N of a VolBox<[T; N], R, W>.
MaxN == 2
\* Largest mode number of the register instance (its raw values are 0 .. 2 * MaxMode + 1).
MaxMode == 1

\* ------------------------------------------------------- types of the code
\* size_of::<T>() of the element type the handles are instantiated at.
SizeOfT == 2
\* align_of::<T>().
AlignOfT == 2

Byte == {0, 1}
Addr == 0 .. (MemSize - 1)
\* The values of T: SizeOfT bytes.
TVal == [1 .. SizeOfT -> Byte]
ZeroT == [k \in 1 .. SizeOfT |-> 0]
\* enum Allow {}, enum Warn {}, enum Deny {}
Tag == {"Allow", "Warn", "Deny"}
Build == {"debug", "release"}

VARIABLES
    mem,     \* the memory: Addr -> Byte
    box,     \* the live VolBox, or NoBox
    last,    \* the last operation: its arguments, its result, what it issued
    wr,      \* <<t>>: write(t) was the last change of memory since new; else <<>>
    acq,     \* the address the last VolBox::new was called with
    ub,      \* an access with undefined behaviour has happened
    build,   \* the build profile
    value,   \* VCell.value of the register's cell
    pc,      \* position of the caller inside VCell::replace
    old,     \* local `old` of VCell::replace
    atCall,  \* value of the cell when the last replace was called
    hit,     \* <<x>>: another writer stored x between the two steps of replace
    rlast    \* the last cell / register operation

vars == <<mem, box, last, wr, acq, ub, build, value, pc, old, atCall, hit, rlast>>
boxVars == <<mem, box, last, wr, acq, ub, build>>
cellVars == <<value, pc, old, atCall, hit, rlast>>

\* ------------------------------------------------------------- the handle
NoBox == [live |-> FALSE, loc |-> 0, r |-> "Deny", w |-> "Deny", arr |-> FALSE, n |-> 0]

\* struct VolBox<T, R, W> { loc, r, w }; arr/n say whether T is [T; N].
new_aligned(loc, r, w, arr, n) ==
    [live |-> TRUE, loc |-> loc - (loc % AlignOfT), r |-> r, w |-> w, arr |-> arr, n |-> n]
new(loc, r, w, arr, n) ==
    [live |-> TRUE, loc |-> loc, r |-> r, w |-> w, arr |-> arr, n |-> n]

\* The checks VolBox::new makes on its argument: none, in any build.
new_panics_debug(loc) == build = "debug" /\ (loc = 0 \/ loc % AlignOfT # 0)
new_panics(loc) == FALSE

into_raw(self) == self.loc

\* impl<T: Copy, W> VolBox<T, Warn, W> and VolBox<T, Allow, W>: read, read_at.
HasRead(r) == r \in {"Warn", "Allow"}
\* impl<T: Copy, R> VolBox<T, R, Warn> and VolBox<T, R, Allow>: write, write_at.
HasWriteAny(w) == w \in Tag
HasWrite(w) == w \in {"Warn", "Allow"}

\* ptr.read_volatile(): the SizeOfT bytes at a.
read_volatile_first(m, a) == [k \in 1 .. SizeOfT |-> m[a]]
read_volatile(m, a) == [k \in 1 .. SizeOfT |-> m[a + k - 1]]
\* ptr.write_volatile(t): the memory with the SizeOfT bytes at a replaced by t.
write_volatile(m, a, t) ==
    [x \in Addr |-> IF x >= a /\ x < a + SizeOfT THEN t[x - a + 1] ELSE m[x]]

\* VolBox::read: self.loc.read_volatile()
read(self, m) == read_volatile(m, self.loc)
\* VolBox::write: self.loc.write_volatile(t)
write(self, m, t) == write_volatile(m, self.loc, t)

\* assert!(i < N)
InBoundsIncl(i, n) == i <= n
InBounds(i, n) == i < n
\* (self.loc as *mut T).add(i)
ElemAddrBytes(loc, i) == loc + i
ElemAddr(loc, i) == loc + i * SizeOfT

\* The safety contract of VolBox::new for an access of one T at a.
ValidPtr(a) == a # 0 /\ a % AlignOfT = 0 /\ a + SizeOfT <= MemSize

Op(op, i, val, ptr, panic, loads, stores) ==
    [op |-> op, i |-> i, val |-> val, ptr |-> ptr, panic |-> panic,
     loads |-> loads, stores |-> stores]

\* Operation op has undefined behaviour: from here on Havoc runs, and memory
\* and the result are whatever it makes them.
Undefined(op, i) ==
    /\ ub' = TRUE
    /\ last' = Op(op, i, ZeroT, 0, FALSE, 0, 0)
    /\ wr' = <<>>
    /\ UNCHANGED <<mem, box, acq, build>>

\* After undefined behaviour: any byte of memory and the result of the
\* offending operation take any value.
Havoc ==
    /\ ub
    /\ \/ \E a \in Addr, b \in Byte :
            /\ mem[a] # b
            /\ mem' = [mem EXCEPT ![a] = b]
            /\ UNCHANGED last
       \/ \E t \in TVal :
            /\ last.val # t
            /\ last' = [last EXCEPT !.val = t]
            /\ UNCHANGED mem
    /\ UNCHANGED <<box, wr, acq, ub, build>>

New ==
    \E loc \in Addr, r \in Tag, w \in Tag, arr \in BOOLEAN, n \in 0 .. MaxN :
        /\ ~ub /\ ~box.live
        /\ arr \/ n = 1
        /\ IF new_panics(loc)
           THEN /\ last' = Op("new", 0, ZeroT, loc, TRUE, 0, 0)
                /\ box' = box
           ELSE /\ last' = Op("new", 0, ZeroT, loc, FALSE, 0, 0)
                /\ box' = new(loc, r, w, arr, n)
        /\ wr' = <<>>
        /\ acq' = loc
        /\ UNCHANGED <<mem, ub, build>>

IntoRaw ==
    /\ ~ub /\ box.live
    /\ last' = Op("into_raw", 0, ZeroT, into_raw(box), FALSE, 0, 0)
    /\ box' = NoBox
    /\ UNCHANGED <<mem, wr, acq, ub, build>>

Read ==
    /\ ~ub /\ box.live /\ ~box.arr /\ HasRead(box.r)
    /\ IF ValidPtr(box.loc)
       THEN /\ last' = Op("read", 0, read(box, mem), 0, FALSE, 1, 0)
            /\ UNCHANGED <<mem, box, wr, acq, ub, build>>
       ELSE Undefined("read", 0)

Write ==
    \E t \in TVal :
        /\ ~ub /\ box.live /\ ~box.arr /\ HasWrite(box.w)
        /\ IF ValidPtr(box.loc)
           THEN /\ mem' = write(box, mem, t)
                /\ last' = Op("write", 0, t, 0, FALSE, 0, 1)
                /\ wr' = <<t>>
                /\ UNCHANGED <<box, acq, ub, build>>
           ELSE Undefined("write", 0)

ReadAt ==
    \E i \in 0 .. (MaxN + 1) :
        /\ ~ub /\ box.live /\ box.arr /\ HasRead(box.r)
        /\ IF ~InBounds(i, box.n)
           THEN /\ last' = Op("read_at", i, ZeroT, 0, TRUE, 0, 0)
                /\ UNCHANGED <<mem, box, wr, acq, ub, build>>
           ELSE IF ValidPtr(ElemAddr(box.loc, i))
           THEN /\ last' = Op("read_at", i, read_volatile(mem, ElemAddr(box.loc, i)),
                              0, FALSE, 1, 0)
                /\ UNCHANGED <<mem, box, wr, acq, ub, build>>
           ELSE Undefined("read_at", i)

WriteAt ==
    \E i \in 0 .. (MaxN + 1), t \in TVal :
        /\ ~ub /\ box.live /\ box.arr /\ HasWrite(box.w)
        /\ IF ~InBounds(i, box.n)
           THEN /\ last' = Op("write_at", i, ZeroT, 0, TRUE, 0, 0)
                /\ UNCHANGED <<mem, box, wr, acq, ub, build>>
           ELSE IF ValidPtr(ElemAddr(box.loc, i))
           THEN /\ mem' = write_volatile(mem, ElemAddr(box.loc, i), t)
                /\ last' = Op("write_at", i, t, 0, FALSE, 0, 1)
                /\ wr' = <<>>
                /\ UNCHANGED <<box, acq, ub, build>>
           ELSE Undefined("write_at", i)

\* The device behind the memory changes one byte of it.
Device ==
    \E a \in Addr, b \in Byte :
        /\ ~ub /\ a # 0 /\ mem[a] # b
        /\ mem' = [mem EXCEPT ![a] = b]
        /\ last' = Op("device", 0, ZeroT, 0, FALSE, 0, 0)
        /\ wr' = <<>>
        /\ UNCHANGED <<box, acq, ub, build>>

\* ---------------------------------------------------- the cell, the register
\* The raw values of the register's cell: type Val.
Val == 0 .. (2 * MaxMode + 1)
\* The register instance's Read type, From<Val>: a decoded status.
FromVal(v) == [ready |-> v % 2 = 1, mode |-> v \div 2]
\* The register instance's Write type, Into<Val>: a command to encode.
WriteT == [enable : BOOLEAN, mode : 0 .. MaxMode]
IntoVal(w) == 2 * w.mode + (IF w.enable THEN 1 ELSE 0)

\* VCell::get: read_volatile(self.value.get())
get(cell) == cell
\* VCell::set: write_volatile(self.value.get(), val); the cell afterwards.
set_lost(cell, val) == cell
set(cell, val) == val

\* Reg::access_with, applying the closure once to the cell: the closures of
\* ReadReg::read and WriteReg::write.
\* ReadReg::read: access_with(|vc| vc.get()).into()
ReadReg_read(cell) == FromVal(get(cell))
\* WriteReg::write: access_with(|vc| vc.set(w.into())); the cell afterwards.
WriteReg_write_peek(cell, w) == get(cell)
WriteReg_write(cell, w) == set(cell, IntoVal(w))

ROp(op, arg, ret, loads, stores) ==
    [op |-> op, arg |-> arg, ret |-> ret, loads |-> loads, stores |-> stores]

Get ==
    /\ pc = "idle"
    /\ rlast' = ROp("get", 0, get(value), 1, 0)
    /\ UNCHANGED <<value, pc, old, atCall, hit>>

Set ==
    \E val \in Val :
        /\ pc = "idle"
        /\ value' = set(value, val)
        /\ rlast' = ROp("set", val, 0, 0, 1)
        /\ UNCHANGED <<pc, old, atCall, hit>>

\* VCell::replace, first statement: let old = self.get();
ReplaceLoad ==
    \E val \in Val :
        /\ pc = "idle"
        /\ old' = get(value)
        /\ atCall' = value
        /\ hit' = <<>>
        /\ pc' = "replace"
        /\ rlast' = ROp("replace_load", val, 0, 1, 0)
        /\ UNCHANGED value

\* An atomic exchange in place of the store: returns what the store overwrites.
ReplaceSwap ==
    /\ pc = "replace"
    /\ value' = set(value, rlast.arg)
    /\ rlast' = ROp("replace", rlast.arg, get(value), 1, 1)
    /\ pc' = "idle"
    /\ UNCHANGED <<old, atCall, hit>>

\* VCell::replace, the rest: self.set(val); old
ReplaceStore ==
    /\ pc = "replace"
    /\ value' = set(value, rlast.arg)
    /\ rlast' = ROp("replace", rlast.arg, old, 1, 1)
    /\ pc' = "idle"
    /\ UNCHANGED <<old, atCall, hit>>

RegRead ==
    /\ pc = "idle"
    /\ rlast' = ROp("reg_read", 0, ReadReg_read(value), 1, 0)
    /\ UNCHANGED <<value, pc, old, atCall, hit>>

RegWrite ==
    \E w \in WriteT :
        /\ pc = "idle"
        /\ value' = WriteReg_write(value, w)
        /\ rlast' = ROp("reg_write", w, 0, 0, 1)
        /\ UNCHANGED <<pc, old, atCall, hit>>

\* Another writer (the device, another core) stores x to the cell's address.
OtherStore ==
    \E x \in Val :
        /\ value # x
        /\ value' = x
        /\ hit' = IF pc = "replace" THEN <<x>> ELSE hit
        /\ rlast' = IF pc = "replace" THEN rlast ELSE ROp("other", x, 0, 0, 0)
        /\ UNCHANGED <<pc, old, atCall>>

CellNext ==
    \/ Get /\ UNCHANGED boxVars
    \/ Set /\ UNCHANGED boxVars
    \/ ReplaceLoad /\ UNCHANGED boxVars
    \/ ReplaceStore /\ UNCHANGED boxVars
    \/ RegRead /\ UNCHANGED boxVars
    \/ RegWrite /\ UNCHANGED boxVars
    \/ OtherStore /\ UNCHANGED boxVars

\* ------------------------------------------------------------ the two systems
BoxInit ==
    /\ mem = [a \in Addr |-> 0]
    /\ box = NoBox
    /\ last = Op("init", 0, ZeroT, 0, FALSE, 0, 0)
    /\ wr = <<>>
    /\ acq = 0
    /\ ub = FALSE
    /\ build \in Build

CellIdle ==
    /\ value = 0
    /\ pc = "idle"
    /\ old = 0
    /\ atCall = 0
    /\ hit = <<>>
    /\ rlast = ROp("init", 0, 0, 0, 0)

Init == BoxInit /\ CellIdle

Next ==
    \/ New /\ UNCHANGED cellVars
    \/ IntoRaw /\ UNCHANGED cellVars
    \/ Read /\ UNCHANGED cellVars
    \/ Write /\ UNCHANGED cellVars
    \/ ReadAt /\ UNCHANGED cellVars
    \/ WriteAt /\ UNCHANGED cellVars
    \/ Device /\ UNCHANGED cellVars
    \/ Havoc /\ UNCHANGED cellVars

Spec == Init /\ [][Next]_vars

CellSpec == Init /\ [][CellNext]_vars

\* --------------------------------------------------------------- the claims
\* A handle whose whole run of n elements satisfies the contract of new.
ValidRun(b) ==
    b.loc # 0 /\ b.loc % AlignOfT = 0 /\ b.loc + b.n * SizeOfT <= MemSize

\* C1: on a handle whose read and write tags are Allow or Warn, a read() that
\* follows write(v), with no other change of memory in between, returns v.
C1_WriteThenRead ==
    (~ub /\ last.op = "read" /\ wr # <<>>) =>
        /\ last.val = wr[1]
        /\ box.r \in {"Allow", "Warn"} /\ box.w \in {"Allow", "Warn"}

C1_Witness ==
    /\ ~ub /\ last.op = "read" /\ wr # <<>>
    /\ box.r = "Warn" /\ box.w = "Allow"
    /\ last.val = [k \in 1 .. SizeOfT |-> IF k = 1 THEN 0 ELSE 1]

\* C2: a live handle owns the address new was called with, whatever was read
\* or written through it, and into_raw returns exactly that address.
C2_ReleaseReturnsAddress ==
    /\ (~ub /\ box.live) => box.loc = acq
    /\ (~ub /\ last.op = "into_raw") => last.ptr = acq

C2_Witness ==
    /\ ~ub /\ last.op = "into_raw" /\ wr # <<>>
    /\ last.ptr = acq /\ acq = 2 * AlignOfT

\* C3: read_at(i) and write_at(i, v) with i >= N panic before any access: no
\* load, no store, no byte of memory changed; for every tag and for N = 0.
C3_OutOfBoundsAborts ==
    [][(~ub /\ last'.op \in {"read_at", "write_at"} /\ last'.i >= box.n) =>
          /\ last'.panic /\ ~ub'
          /\ last'.loads = 0 /\ last'.stores = 0
          /\ mem' = mem]_vars

C3_Witness ==
    /\ last.op = "write_at" /\ last.panic /\ last.i = 0 /\ box.n = 0
    /\ box.w = "Warn"

\* C4: on a valid run of N elements at b, for i < N, write_at(i, v) stores v
\* at b + i * SizeOfT and changes nothing else, read_at(i) returns the value
\* at b + i * SizeOfT and changes nothing: each as write(v) / read() of a
\* one-element handle acquired at that address.
C4_IndexedAccess ==
    [][(~ub /\ ValidRun(box) /\ last'.op \in {"read_at", "write_at"}
            /\ last'.i < box.n) =>
          LET a == box.loc + last'.i * SizeOfT
              one == new(a, box.r, box.w, FALSE, 1)
          IN  /\ ~ub' /\ ~last'.panic
              /\ last'.op = "write_at" =>
                    /\ mem' = write(one, mem, last'.val)
                    /\ \A k \in 1 .. SizeOfT : mem'[a + k - 1] = last'.val[k]
                    /\ \A x \in Addr : (x < a \/ x >= a + SizeOfT) => mem'[x] = mem[x]
                    /\ last'.stores = 1 /\ last'.loads = 0
              /\ last'.op = "read_at" =>
                    /\ last'.val = read(one, mem)
                    /\ \A k \in 1 .. SizeOfT : last'.val[k] = mem[a + k - 1]
                    /\ mem' = mem
                    /\ last'.loads = 1 /\ last'.stores = 0]_vars

C4_Witness ==
    /\ ~ub /\ last.op = "write_at" /\ ~last.panic /\ last.i = 1
    /\ box.n = 2 /\ box.loc = AlignOfT
    /\ mem[box.loc + SizeOfT] = 1 /\ mem[box.loc] = 0

\* C5: with no other writer, get() after set(v) returns v; replace(v2)
\* returns the value the cell held before the call and leaves v2 in the
\* cell; get() does not change the cell.
C5_CellGetSetReplace ==
    [][/\ (rlast.op = "set" /\ rlast'.op = "get") => rlast'.ret = rlast.arg
       /\ rlast'.op = "set" => value' = rlast'.arg
       /\ rlast'.op = "get" => (value' = value /\ rlast'.ret = value)
       /\ (rlast'.op = "replace" /\ hit' = <<>>) =>
             (rlast'.ret = atCall' /\ value' = rlast'.arg)]_vars

C5_Witness ==
    /\ rlast.op = "replace" /\ hit = <<>>
    /\ rlast.ret = atCall /\ rlast.ret # rlast.arg /\ value = rlast.arg

\* C9: replace is a load and then a store: when another writer stores x in
\* between, replace still returns the value it loaded and overwrites x.
C9_ReplaceNotAtomic ==
    rlast.op = "replace" => (rlast.ret = atCall /\ value = rlast.arg)

C9_Witness ==
    /\ rlast.op = "replace" /\ hit # <<>>
    /\ hit[1] # rlast.ret /\ hit[1] # value

\* C6: ReadReg::read returns From of the raw value in the cell, with one load
\* and the cell unchanged; WriteReg::write(w) stores Into of w; a read that
\* follows returns From(Into(w)).
C6_RegisterReadWrite ==
    [][/\ rlast'.op = "reg_read" =>
             /\ rlast'.ret = FromVal(value) /\ value' = value
             /\ rlast'.loads = 1 /\ rlast'.stores = 0
       /\ rlast'.op = "reg_write" =>
             /\ value' = 2 * rlast'.arg.mode + (IF rlast'.arg.enable THEN 1 ELSE 0)
             /\ rlast'.stores = 1
       /\ (rlast.op = "reg_write" /\ rlast'.op = "reg_read") =>
             rlast'.ret = [ready |-> rlast.arg.enable, mode |-> rlast.arg.mode]]_vars

C6_Witness ==
    /\ rlast.op = "reg_read"
    /\ rlast.ret = [ready |-> TRUE, mode |-> MaxMode]
    /\ value = 2 * MaxMode + 1

\* C8: nothing is loaded through a handle whose read tag is Deny, nothing is
\* stored through one whose write tag is Deny, and memory does not change
\* through it.
C8_DenyHasNoAccess ==
    [][(~ub /\ box.live) =>
          /\ box.r = "Deny" =>
                (last'.loads = 0 /\ last'.op \notin {"read", "read_at"})
          /\ box.w = "Deny" =>
                /\ last'.stores = 0 /\ last'.op \notin {"write", "write_at"}
                /\ last'.op # "device" => mem' = mem]_vars

C8_Witness ==
    /\ ~ub /\ box.live /\ box.r = "Deny" /\ box.w = "Allow"
    /\ last.op = "write" /\ last.stores = 1

\* C10 as stated: in a debug build new aborts on a null or unaligned address;
\* in a release build it returns a handle owning the address.
C10_DebugNewAborts ==
    last.op = "new" =>
        IF build = "debug" /\ (last.ptr = 0 \/ last.ptr % AlignOfT # 0)
        THEN last.panic /\ ~box.live
        ELSE ~last.panic /\ box.live /\ box.loc = last.ptr

\* C10 amended: in every build new makes no check: for every address, null
\* and unaligned ones included, it returns a handle owning that address.
C10_NewNeverChecks ==
    last.op = "new" => (~last.panic /\ box.live /\ box.loc = last.ptr)

C10_Witness ==
    /\ build = "debug" /\ last.op = "new" /\ last.ptr = 0
    /\ box.live /\ box.loc = 0

====
